---- MODULE Spec2Model ----
(***************************************************************************)
(* vergit: `vergit bump [component] [--global] [--dry-run] [--push]`.      *)
(* A model of src/src/main.rs: a repository with its tags, then one run of *)
(* main() split at its statements, and the conversions it relies on        *)
(* (semver::Version::from_str, Display, Ord, str::rsplit_once,             *)
(* str::parse::<u64>, Prerelease::from_str).                               *)
(*                                                                         *)
(* Strings are TLA+ strings; a u64 is the tuple of its decimal digits,     *)
(* most significant first, without leading zeros (<<0>> is zero), so that  *)
(* values up to and beyond 2^64 - 1 are represented exactly.               *)
(***************************************************************************)
EXTENDS Integers, Sequences, FiniteSets, TLC

-----------------------------------------------------------------------------
(* Characters and strings                                                  *)

Char(s, i) == SubSeq(s, i, i)

\* The bytes that can occur in a tag name of the model, in ASCII order.
AsciiOrder == "+-.0123456789ABCDEFGHIJKLMNOPQRSTUVWXYZabcdefghijklmnopqrstuvwxyz"

\* The rank of each byte in that order.
CharCode ==
    [c \in {Char(AsciiOrder, i) : i \in 1..Len(AsciiOrder)} |->
       CHOOSE i \in 1..Len(AsciiOrder) : Char(AsciiOrder, i) = c]

Ord(c) == CharCode[c]

DigitChars == {Char(AsciiOrder, i) : i \in 4..13}

UpperChars == {Char(AsciiOrder, i) : i \in 14..39}

LowerChars == {Char(AsciiOrder, i) : i \in 40..65}

IsDigit(c) == c \in DigitChars

IsLetterOrHyphen(c) == c \in UpperChars \cup LowerChars \cup {"-"}

DigitValue(c) == Ord(c) - Ord("0")

DigitChar(d) == Char(AsciiOrder, d + Ord("0"))

AllDigits(s) == \A i \in 1..Len(s) : IsDigit(Char(s, i))

\* Position of the first / last occurrence of character c in s, 0 when absent.
RECURSIVE IndexFrom(_, _, _)
IndexFrom(s, c, i) ==
    IF i > Len(s) THEN 0
    ELSE IF Char(s, i) = c THEN i
    ELSE IndexFrom(s, c, i + 1)

IndexOf(s, c) == IndexFrom(s, c, 1)

RECURSIVE LastIndexFrom(_, _, _)
LastIndexFrom(s, c, i) ==
    IF i = 0 THEN 0
    ELSE IF Char(s, i) = c THEN i
    ELSE LastIndexFrom(s, c, i - 1)

LastIndexOf(s, c) == LastIndexFrom(s, c, Len(s))

\* str::split('.'): the segments between the separators, empty ones included.
RECURSIVE Split(_, _)
Split(s, c) ==
    LET i == IndexOf(s, c)
    IN  IF i = 0 THEN <<s>>
        ELSE <<SubSeq(s, 1, i - 1)>> \o Split(SubSeq(s, i + 1, Len(s)), c)

IntCmp(a, b) == IF a < b THEN -1 ELSE IF a > b THEN 1 ELSE 0

\* str::cmp: byte-wise lexicographic order, a proper prefix first. -1, 0 or 1.
RECURSIVE StrCmpFrom(_, _, _)
StrCmpFrom(a, b, i) ==
    IF i > Len(a) \/ i > Len(b) THEN IntCmp(Len(a), Len(b))
    ELSE IF Char(a, i) # Char(b, i) THEN IntCmp(Ord(Char(a, i)), Ord(Char(b, i)))
    ELSE StrCmpFrom(a, b, i + 1)

StrCmp(a, b) == IF a = b THEN 0 ELSE StrCmpFrom(a, b, 1)

-----------------------------------------------------------------------------
(* u64                                                                     *)

\* u64::MAX = 18446744073709551615
U64Max == <<1, 8, 4, 4, 6, 7, 4, 4, 0, 7, 3, 7, 0, 9, 5, 5, 1, 6, 1, 5>>

Zero == <<0>>

\* Order of two digit tuples without leading zeros.
RECURSIVE DigitsCmp(_, _)
DigitsCmp(a, b) ==
    IF Len(a) # Len(b) THEN IntCmp(Len(a), Len(b))
    ELSE IF Len(a) = 0 THEN 0
    ELSE IF a[1] # b[1] THEN IntCmp(a[1], b[1])
    ELSE DigitsCmp(Tail(a), Tail(b))

RECURSIVE StripLeadingZeros(_)
StripLeadingZeros(d) ==
    IF Len(d) > 1 /\ d[1] = 0 THEN StripLeadingZeros(Tail(d)) ELSE d

\* The successor of a natural number in decimal.
RECURSIVE Succ(_)
Succ(d) ==
    IF Len(d) = 0 THEN <<1>>
    ELSE IF d[Len(d)] < 9 THEN SubSeq(d, 1, Len(d) - 1) \o <<d[Len(d)] + 1>>
    ELSE Succ(SubSeq(d, 1, Len(d) - 1)) \o <<0>>

\* The decimal digits of a string of digits.
StrDigits(s) == [i \in 1..Len(s) |-> DigitValue(Char(s, i))]

\* impl Display for u64
RECURSIVE U64ToString(_)
U64ToString(d) ==
    IF Len(d) = 0 THEN "" ELSE DigitChar(d[1]) \o U64ToString(Tail(d))

Ok(v) == [ok |-> TRUE, val |-> v]

Err(e) == [ok |-> FALSE, err |-> e]

\* str::parse::<u64>(): an optional '+', then one or more digits (leading
\* zeros allowed), the value at most u64::MAX.
ParseU64(s) ==
    LET t == IF Len(s) > 0 /\ Char(s, 1) = "+" THEN SubSeq(s, 2, Len(s)) ELSE s
    IN  IF Len(t) = 0 THEN Err("cannot parse integer from empty string")
        ELSE IF ~AllDigits(t) THEN Err("invalid digit found in string")
        ELSE LET d == StripLeadingZeros(StrDigits(t))
             IN  IF DigitsCmp(d, U64Max) = 1
                 THEN Err("number too large to fit in target type")
                 ELSE Ok(d)

\* u64 + 1. At u64::MAX the addition overflows: a build with overflow checks
\* panics, a build without them wraps to 0.
Add1(d, overflow_checks) ==
    IF d = U64Max
    THEN IF overflow_checks THEN Err("attempt to add with overflow") ELSE Ok(Zero)
    ELSE Ok(Succ(d))

-----------------------------------------------------------------------------
(* semver::Version: parsing, display and order                             *)

\* A dot-separated list of identifiers as semver accepts it after '-'
\* (pre = TRUE) or after '+' (pre = FALSE): every identifier is non-empty and
\* made of [0-9A-Za-z-]; a numeric prerelease identifier has no leading zero.
ValidIdentifier(seg, pre) ==
    /\ Len(seg) > 0
    /\ \A i \in 1..Len(seg) : IsDigit(Char(seg, i)) \/ IsLetterOrHyphen(Char(seg, i))
    /\ ~(pre /\ Len(seg) > 1 /\ AllDigits(seg) /\ Char(seg, 1) = "0")

ValidIdentifiers(s, pre) ==
    LET segs == Split(s, ".")
    IN  \A k \in 1..Len(segs) : ValidIdentifier(segs[k], pre)

\* Prerelease::from_str: the empty string is the empty prerelease.
PrereleaseFromStr(s) ==
    IF s = "" THEN Ok("")
    ELSE IF ValidIdentifiers(s, TRUE) THEN Ok(s)
    ELSE Err("invalid prerelease identifier")

\* One of MAJOR, MINOR, PATCH: digits, no leading zero, at most u64::MAX.
ValidNumeric(seg) ==
    /\ Len(seg) > 0
    /\ AllDigits(seg)
    /\ ~(Len(seg) > 1 /\ Char(seg, 1) = "0")
    /\ DigitsCmp(StrDigits(seg), U64Max) # 1

\* semver::Version::from_str: MAJOR.MINOR.PATCH[-PRERELEASE][+BUILD].
VersionFromStr(s) ==
    LET plus   == IndexOf(s, "+")
        body   == IF plus = 0 THEN s ELSE SubSeq(s, 1, plus - 1)
        build  == IF plus = 0 THEN "" ELSE SubSeq(s, plus + 1, Len(s))
        hyphen == IndexOf(body, "-")
        core   == IF hyphen = 0 THEN body ELSE SubSeq(body, 1, hyphen - 1)
        pre    == IF hyphen = 0 THEN "" ELSE SubSeq(body, hyphen + 1, Len(body))
        nums   == Split(core, ".")
    IN  IF /\ Len(nums) = 3
           /\ \A k \in 1..3 : ValidNumeric(nums[k])
           /\ (hyphen # 0 => ValidIdentifiers(pre, TRUE))
           /\ (plus # 0 => ValidIdentifiers(build, FALSE))
        THEN Ok([major |-> StrDigits(nums[1]),
                 minor |-> StrDigits(nums[2]),
                 patch |-> StrDigits(nums[3]),
                 pre   |-> pre,
                 build |-> build])
        ELSE Err("unexpected character in version")

\* impl Display for Version (Version::to_string, format!("{}", version)).
VersionToString(v) ==
    U64ToString(v.major) \o "." \o U64ToString(v.minor) \o "." \o U64ToString(v.patch)
      \o (IF v.pre = "" THEN "" ELSE "-" \o v.pre)
      \o (IF v.build = "" THEN "" ELSE "+" \o v.build)

\* The digits of an all-digit identifier without its leading zeros.
RECURSIVE TrimZeros(_)
TrimZeros(seg) ==
    IF Len(seg) > 0 /\ Char(seg, 1) = "0" THEN TrimZeros(SubSeq(seg, 2, Len(seg))) ELSE seg

\* Order of two identifiers: numeric ones by value, a numeric one below an
\* alphanumeric one, alphanumeric ones as strings. Build metadata (trim = TRUE)
\* may carry leading zeros, which count only to break a tie.
IdentifierCmp(l, r, trim) ==
    IF AllDigits(l) /\ AllDigits(r)
    THEN LET lv == IF trim THEN TrimZeros(l) ELSE l
             rv == IF trim THEN TrimZeros(r) ELSE r
         IN  IF Len(lv) # Len(rv) THEN IntCmp(Len(lv), Len(rv))
             ELSE IF StrCmp(lv, rv) # 0 THEN StrCmp(lv, rv)
             ELSE IntCmp(Len(l), Len(r))
    ELSE IF AllDigits(l) THEN -1
    ELSE IF AllDigits(r) THEN 1
    ELSE StrCmp(l, r)

\* Identifier lists, left to right; a proper prefix is the smaller one.
RECURSIVE IdentifiersCmp(_, _, _)
IdentifiersCmp(ls, rs, trim) ==
    IF Len(ls) = 0 THEN (IF Len(rs) = 0 THEN 0 ELSE -1)
    ELSE IF Len(rs) = 0 THEN 1
    ELSE IF IdentifierCmp(ls[1], rs[1], trim) # 0 THEN IdentifierCmp(ls[1], rs[1], trim)
    ELSE IdentifiersCmp(Tail(ls), Tail(rs), trim)

\* impl Ord for Prerelease: the empty prerelease (a release) is the greatest.
PrereleaseCmp(a, b) ==
    IF a = "" /\ b = "" THEN 0
    ELSE IF a = "" THEN 1
    ELSE IF b = "" THEN -1
    ELSE IdentifiersCmp(Split(a, "."), Split(b, "."), FALSE)

\* impl Ord for BuildMetadata.
BuildCmp(a, b) == IdentifiersCmp(Split(a, "."), Split(b, "."), TRUE)

\* impl Ord for Version: major, minor, patch, pre, build, in this order.
VersionCmp(a, b) ==
    IF DigitsCmp(a.major, b.major) # 0 THEN DigitsCmp(a.major, b.major)
    ELSE IF DigitsCmp(a.minor, b.minor) # 0 THEN DigitsCmp(a.minor, b.minor)
    ELSE IF DigitsCmp(a.patch, b.patch) # 0 THEN DigitsCmp(a.patch, b.patch)
    ELSE IF PrereleaseCmp(a.pre, b.pre) # 0 THEN PrereleaseCmp(a.pre, b.pre)
    ELSE BuildCmp(a.build, b.build)

\* The greatest element by the byte order of the names ("0.0.9" above
\* "0.0.10"), as `git describe` orders two tags of one commit.
RECURSIVE IterMaxByName(_)
IterMaxByName(vs) ==
    IF Len(vs) = 0 THEN [some |-> FALSE]
    ELSE LET rest == IterMaxByName(Tail(vs))
         IN  IF rest.some /\ StrCmp(VersionToString(rest.val), VersionToString(vs[1])) >= 0
             THEN rest
             ELSE [some |-> TRUE, val |-> vs[1]]

\* Iterator::max over a vector: None when it is empty, else the greatest
\* element, the last one among equals.
RECURSIVE IterMax(_)
IterMax(vs) ==
    IF Len(vs) = 0 THEN [some |-> FALSE]
    ELSE LET rest == IterMax(Tail(vs))
         IN  IF rest.some /\ VersionCmp(rest.val, vs[1]) >= 0
             THEN rest
             ELSE [some |-> TRUE, val |-> vs[1]]

-----------------------------------------------------------------------------
(* The repository and one invocation of `vergit bump`                      *)

\* Most tags the repository holds when vergit is run.
MaxTags == 2

Commits == {"c1", "c2"}

\* Names a tag may be given from outside (`git tag <name> <commit>`).
TagNames ==
    { "hello-world", "0.0.1", "0.0.9", "0.0.10", "1.8.5", "1.0.0+b7",
      "0.0.1-beta", "0.0.1-beta.1", "0.0.1-beta.1.a", "0.0.1-test.b.2",
      "1.0.0-3", "0.0.1-beta.0", "0.0.1-beta.18446744073709551615" }

Components == {"Major", "Minor", "Patch", "Prerelease"}

None == [some |-> FALSE]

Some(v) == [some |-> TRUE, val |-> v]

\* The command line: BumpCommand's component, --global, --dry-run, --push.
Options ==
    [component : {None} \cup {Some(c) : c \in Components},
     global : BOOLEAN, dry_run : BOOLEAN, push : BOOLEAN]

NoVersion == [major |-> Zero, minor |-> Zero, patch |-> Zero, pre |-> "", build |-> ""]

VARIABLES
    tags,             \* the repository's tags: name -> [annotated, commit]
    head,             \* the commit HEAD points to (c1 throughout: vergit never moves it)
    remote_tags,      \* names of the tags pushed to the remote
    pc,               \* where the run of main() stands
    opts,             \* the parsed command line
    all_versions,     \* main's all_versions
    latest_version,   \* main's latest_version
    field_to_bump,    \* main's field_to_bump
    new_version,      \* main's new_version
    error,            \* the message main() ended with, "" when none
    stdout,           \* what the run printed
    start_tags        \* the tags as they were when the run started

vars == <<tags, head, remote_tags, pc, opts, all_versions,
          latest_version, field_to_bump, new_version, error, stdout, start_tags>>

repo == <<tags, head, remote_tags>>

Init ==
    /\ tags = <<>>
    /\ head = "c1"
    /\ remote_tags = {}
    /\ pc = "idle"
    /\ opts = [component |-> None, global |-> FALSE, dry_run |-> FALSE, push |-> FALSE]
    /\ all_versions = <<>>
    /\ latest_version = NoVersion
    /\ field_to_bump = "Patch"
    /\ new_version = NoVersion
    /\ error = ""
    /\ stdout = ""
    /\ start_tags = <<>>

\* `git tag <name> <commit>` (a lightweight tag), before vergit is run.
GitTag(name, commit) ==
    /\ name \notin DOMAIN tags
    /\ Cardinality(DOMAIN tags) < MaxTags
    /\ tags' = [n \in DOMAIN tags \cup {name} |->
                  IF n = name THEN [annotated |-> FALSE, commit |-> commit] ELSE tags[n]]
    /\ UNCHANGED <<head, remote_tags, pc, opts, all_versions,
                   latest_version, field_to_bump, new_version, error, stdout, start_tags>>

\* Opts::parse(), Repository::open.
Invoke(o) ==
    /\ pc' = "collect"
    /\ opts' = o
    /\ start_tags' = tags
    /\ UNCHANGED <<repo, all_versions, latest_version, field_to_bump, new_version,
                   error, stdout>>

\* Repository::tag_names: the names of the tags, in byte order.
RECURSIVE SortedNames(_)
SortedNames(names) ==
    IF names = {} THEN <<>>
    ELSE LET least == CHOOSE n \in names : \A m \in names : StrCmp(n, m) <= 0
         IN  <<least>> \o SortedNames(names \ {least})

\* .map(semver::Version::from_str).filter_map(Result::ok)
RECURSIVE ParseAll(_)
ParseAll(names) ==
    IF Len(names) = 0 THEN <<>>
    ELSE LET parsed == VersionFromStr(names[1])
         IN  (IF parsed.ok THEN <<parsed.val>> ELSE <<>>) \o ParseAll(Tail(names))

CollectVersions ==
    /\ pc = "collect"
    /\ all_versions' = ParseAll(SortedNames(DOMAIN tags))
    /\ pc' = "select"
    /\ UNCHANGED <<repo, opts, latest_version, field_to_bump, new_version, error,
                   stdout, start_tags>>

\* A reference name, as libgit2 accepts it for a lookup: several levels
\* ("refs/tags/x"), or one level in capitals and underscores ("HEAD").
IsReferenceName(name) ==
    \/ IndexOf(name, "/") # 0
    \/ /\ Len(name) > 0
       /\ \A i \in 1..Len(name) :
            Char(name, i) = "_" \/ Char(name, i) \in UpperChars

\* Repository::refname_to_id: the object a reference of exactly this name
\* points to. A tag t is the reference refs/tags/t; an annotated tag points
\* to its tag object, a lightweight one to the commit.
RefnameToId(name) ==
    IF ~IsReferenceName(name) THEN Err("the given reference name is not valid")
    ELSE IF /\ Len(name) > 10
            /\ SubSeq(name, 1, 10) = "refs/tags/"
            /\ SubSeq(name, 11, Len(name)) \in DOMAIN tags
    THEN LET t == SubSeq(name, 11, Len(name))
         IN  IF tags[t].annotated
             THEN Ok([kind |-> "tag", name |-> t, target_id |-> tags[t].commit])
             ELSE Ok([kind |-> "commit", commit |-> tags[t].commit])
    ELSE Err("reference not found")

\* Repository::find_tag: the tag object of this id.
FindTag(id) == IF id.kind = "tag" THEN Ok(id) ELSE Err("object is not a tag")

\* The closure given to filter() in the Local scope.
HeadFilter(v, head_commit) ==
    LET tag_id == RefnameToId(VersionToString(v))
    IN  IF ~tag_id.ok THEN TRUE
        ELSE LET tag == FindTag(tag_id.val)
             IN  IF ~tag.ok THEN TRUE
                 ELSE tag.val.target_id # head_commit

RECURSIVE Filter(_, _)
Filter(vs, head_commit) ==
    IF Len(vs) = 0 THEN <<>>
    ELSE (IF HeadFilter(vs[1], head_commit) THEN <<vs[1]>> ELSE <<>>)
           \o Filter(Tail(vs), head_commit)

\* if bump.global { max of all } else { max of the filtered }
LatestVersion(vs, global, head_commit) ==
    IF global THEN IterMax(vs) ELSE IterMax(Filter(vs, head_commit))

SelectLatest ==
    /\ pc = "select"
    /\ LET latest == LatestVersion(all_versions, opts.global, head)
       IN  IF latest.some
           THEN /\ latest_version' = latest.val
                /\ pc' = "choose"
                /\ error' = error
           ELSE /\ latest_version' = latest_version
                /\ pc' = "failed"
                /\ error' = "No semantic versioning tags found"
    /\ UNCHANGED <<repo, opts, all_versions, field_to_bump, new_version, stdout,
                   start_tags>>

\* bump.component.unwrap_or_default(): Component::default() is Patch.
FieldToBumpOrDefault(component, latest) ==
    IF component.some THEN component.val ELSE "Patch"

\* bump.component.as_ref().unwrap_or(if !latest_version.pre.is_empty() {..})
FieldToBump(component, latest) ==
    IF component.some THEN component.val
    ELSE IF latest.pre # "" THEN "Prerelease" ELSE "Patch"

ChooseField ==
    /\ pc = "choose"
    /\ field_to_bump' = FieldToBump(opts.component, latest_version)
    /\ pc' = "bump"
    /\ UNCHANGED <<repo, opts, all_versions, latest_version, new_version, error,
                   stdout, start_tags>>

\* str::rsplit_once(".").unwrap_or(("", prerelease))
RsplitOnce(s) ==
    LET i == LastIndexOf(s, ".")
    IN  IF i = 0 THEN <<"", s>>
        ELSE <<SubSeq(s, 1, i - 1), SubSeq(s, i + 1, Len(s))>>

\* field += 1 on a u64 field of the version.
BumpNumber(v, field, checks) ==
    LET sum == Add1(v[field], checks)
    IN  IF sum.ok THEN Ok([v EXCEPT ![field] = sum.val]) ELSE sum

\* The Component::Prerelease arm.
BumpPrerelease(v, checks) ==
    LET head_tail == RsplitOnce(v.pre)
        parsed    == ParseU64(head_tail[2])
    IN  IF ~parsed.ok
        THEN Err("numeric part of prerelease is not a valid non-zero integer")
        ELSE LET bumped_pre == Add1(parsed.val, checks)
             IN  IF ~bumped_pre.ok THEN bumped_pre
                 ELSE LET pre == PrereleaseFromStr(
                                   head_tail[1] \o "." \o U64ToString(bumped_pre.val))
                      IN  IF ~pre.ok
                          THEN Err("failed to rebuild prerelease tag after increment")
                          ELSE Ok([v EXCEPT !.pre = pre.val])

\* match field_to_bump { .. }
Bump(v, field, checks) ==
    CASE field = "Major" -> BumpNumber(v, "major", checks)
      [] field = "Minor" -> BumpNumber(v, "minor", checks)
      [] field = "Patch" -> BumpNumber(v, "patch", checks)
      [] field = "Prerelease" -> BumpPrerelease(v, checks)

\* The build decides what an overflowing addition does.
BumpVersion ==
    /\ pc = "bump"
    /\ \E overflow_checks \in BOOLEAN :
       LET bumped == Bump(latest_version, field_to_bump, overflow_checks)
       IN  IF bumped.ok
           THEN /\ new_version' = bumped.val
                /\ pc' = "tag"
                /\ error' = error
           ELSE /\ new_version' = new_version
                /\ pc' = "failed"
                /\ error' = bumped.err
    /\ UNCHANGED <<repo, opts, all_versions, latest_version, field_to_bump, stdout,
                   start_tags>>

\* Repository::tag(name, target, signature, "", force = false): a new
\* annotated tag at the target, an error when a tag of this name exists.
RepositoryTag(name, target) ==
    IF name \in DOMAIN tags THEN Err("tag already exists")
    ELSE Ok([n \in DOMAIN tags \cup {name} |->
               IF n = name THEN [annotated |-> TRUE, commit |-> target] ELSE tags[n]])

\* if !bump.dry_run { repository.tag(..) .. }
CreateTag ==
    /\ pc = "tag"
    /\ IF opts.dry_run
       THEN /\ pc' = "print"
            /\ UNCHANGED <<tags, error>>
       ELSE LET created == RepositoryTag(VersionToString(new_version), head)
            IN  IF created.ok
                THEN /\ tags' = created.val
                     /\ pc' = "push"
                     /\ error' = error
                ELSE /\ tags' = tags
                     /\ pc' = "failed"
                     /\ error' = created.err
    /\ UNCHANGED <<head, remote_tags, opts, all_versions,
                   latest_version, field_to_bump, new_version, stdout, start_tags>>

\* if bump.push { remote.push(&["refs/tags/<name>"]) }
PushTag ==
    /\ pc = "push"
    /\ remote_tags' = IF opts.push
                      THEN remote_tags \cup {VersionToString(new_version)}
                      ELSE remote_tags
    /\ pc' = "print"
    /\ UNCHANGED <<tags, head, opts, all_versions, latest_version,
                   field_to_bump, new_version, error, stdout, start_tags>>

\* if !opts.quiet { println!("{}", new_version) }; Ok(())
PrintVersion ==
    /\ pc = "print"
    /\ \E quiet \in BOOLEAN :
         stdout' = IF quiet THEN stdout ELSE VersionToString(new_version)
    /\ pc' = "done"
    /\ UNCHANGED <<repo, opts, all_versions, latest_version, field_to_bump,
                   new_version, error, start_tags>>

\* Before the run the repository is tagged; then vergit is started.
Next ==
    \/ /\ pc = "idle"
       /\ \E name \in TagNames, commit \in Commits : GitTag(name, commit)
    \/ /\ pc = "idle"
       /\ \E o \in Options : Invoke(o)
    \/ CollectVersions
    \/ SelectLatest
    \/ ChooseField
    \/ BumpVersion
    \/ CreateTag
    \/ PushTag
    \/ PrintVersion

Spec == Init /\ [][Next]_vars

-----------------------------------------------------------------------------
(* What the claims speak of                                                *)

NoTagsFound == "No semantic versioning tags found"

NotNumeric == "numeric part of prerelease is not a valid non-zero integer"

RebuildFailed == "failed to rebuild prerelease tag after increment"

AddOverflow == "attempt to add with overflow"

\* The run is past the selection of the current version.
PastSelect == pc \notin {"idle", "collect", "select"}

\* ... and the selection gave a version.
Selected == PastSelect /\ ~(pc = "failed" /\ error = NoTagsFound)

\* The run is past the increment.
PastBump == Selected /\ pc \notin {"choose", "bump"}

\* ... and the increment gave a version.
Bumped == PastBump /\ ~(pc = "failed" /\ error \in {NotNumeric, RebuildFailed, AddOverflow})

\* Precedence of the Semantic Versioning specification: major, minor and
\* patch as numbers, a prerelease below its release, build metadata ignored.
SemverLess(a, b) ==
    IF a.major # b.major THEN DigitsCmp(a.major, b.major) = -1
    ELSE IF a.minor # b.minor THEN DigitsCmp(a.minor, b.minor) = -1
    ELSE IF a.patch # b.patch THEN DigitsCmp(a.patch, b.patch) = -1
    ELSE PrereleaseCmp(a.pre, b.pre) = -1

\* Version::from_str of every tag name a repository of the model can hold.
Parsed == [n \in TagNames |-> VersionFromStr(n)]

\* The versions of those of these tag names that are semantic versions.
Versions(names) == {Parsed[n].val : n \in {m \in names : Parsed[m].ok}}

\* The versions tagged in a repository, anywhere and at HEAD's commit.
AllVersions(tgs) == Versions(DOMAIN tgs)

HeadVersions(tgs) == Versions({n \in DOMAIN tgs : tgs[n].commit = head})

\* v is one of these versions, and none of them has a higher precedence.
IsSemverMax(v, versions) ==
    /\ v \in versions
    /\ \A w \in versions : ~SemverLess(v, w)

\* The versions the scope of the run admits.
ScopeVersions == IF opts.global THEN AllVersions(start_tags) ELSE HeadVersions(start_tags)

Identifiers(pre) == Split(pre, ".")

LastIdentifier(pre) == Identifiers(pre)[Len(Identifiers(pre))]

\* pre with its last identifier replaced by the next number.
WithLastIncremented(pre) ==
    LET i == LastIndexOf(pre, ".")
    IN  SubSeq(pre, 1, i) \o U64ToString(Succ(StrDigits(LastIdentifier(pre))))

SameNumbers(a, b) == a.major = b.major /\ a.minor = b.minor /\ a.patch = b.patch

\* The repository holds exactly these tags, each at the commit given.
TagsAre(tgs, at) ==
    /\ DOMAIN tgs = DOMAIN at
    /\ \A n \in DOMAIN at : tgs[n].commit = at[n]

-----------------------------------------------------------------------------
(* The claims                                                              *)

\* C1: in the Local scope (no --global) the version selected as current is the
\* semantic-versioning maximum of exactly the version tags that point to HEAD's
\* commit: a tag at another commit is never a candidate.
C1_LocalSelectsMaxAtHead ==
    (Selected /\ ~opts.global) => IsSemverMax(latest_version, HeadVersions(start_tags))

\* C2: in the Global scope the version selected as current is the
\* semantic-versioning maximum over all tags whose names parse, whatever commit
\* they point to; names that do not parse are skipped without an error.
C2_GlobalSelectsMaxOfAll ==
    (PastSelect /\ opts.global) =>
        LET versions == AllVersions(start_tags)
        IN  versions # {} => (Selected /\ IsSemverMax(latest_version, versions))

C2_Witness ==
    /\ pc = "choose"
    /\ opts.global
    /\ TagsAre(start_tags, [n \in {"hello-world", "1.8.5"} |-> "c2"])
    /\ VersionToString(latest_version) = "1.8.5"

\* C3: a Major bump gives (major+1, 0, 0), a Minor bump (major, minor+1, 0), a
\* Patch bump (major, minor, patch+1).
C3_BumpResetsLowerNumbers ==
    Bumped =>
        /\ field_to_bump = "Major" =>
             /\ new_version.major = Succ(latest_version.major)
             /\ new_version.minor = Zero
             /\ new_version.patch = Zero
        /\ field_to_bump = "Minor" =>
             /\ new_version.major = latest_version.major
             /\ new_version.minor = Succ(latest_version.minor)
             /\ new_version.patch = Zero
        /\ field_to_bump = "Patch" =>
             /\ new_version.major = latest_version.major
             /\ new_version.minor = latest_version.minor
             /\ new_version.patch = Succ(latest_version.patch)

\* C4: the result of a Major, Minor or Patch bump has an empty prerelease and
\* empty build metadata.
C4_BumpClearsPrereleaseAndBuild ==
    (Bumped /\ field_to_bump \in {"Major", "Minor", "Patch"}) =>
        new_version.pre = "" /\ new_version.build = ""

\* C5: when the prerelease has two or more identifiers and the last one is a
\* non-negative integer n, a Prerelease bump succeeds, keeps major, minor and
\* patch and the identifiers before the last, and replaces the last by n+1.
C5_PrereleaseBumpIncrementsLast ==
    ( /\ PastBump
      /\ field_to_bump = "Prerelease"
      /\ Len(Identifiers(latest_version.pre)) >= 2
      /\ AllDigits(LastIdentifier(latest_version.pre)) ) =>
        /\ Bumped
        /\ SameNumbers(new_version, latest_version)
        /\ new_version.pre = WithLastIncremented(latest_version.pre)

\* C6: when the prerelease is a single numeric identifier n, a Prerelease bump
\* succeeds, keeps major, minor and patch, and the prerelease becomes n+1.
C6_SingleNumericPrereleaseBump ==
    ( /\ PastBump
      /\ field_to_bump = "Prerelease"
      /\ latest_version.pre # ""
      /\ AllDigits(latest_version.pre) ) =>
        /\ Bumped
        /\ SameNumbers(new_version, latest_version)
        /\ new_version.pre = U64ToString(Succ(StrDigits(latest_version.pre)))

\* C7: a Prerelease bump ends in an error exactly when the current version has
\* no prerelease (an error of its own, raised before any split) or the last
\* prerelease identifier is not a plain non-negative integer (the error "not
\* purely numeric").
C7_PrereleaseBumpErrors ==
    (PastBump /\ field_to_bump = "Prerelease") =>
        /\ ~Bumped <=> \/ latest_version.pre = ""
                       \/ ~AllDigits(LastIdentifier(latest_version.pre))
        /\ latest_version.pre = "" => error # NotNumeric
        /\ (latest_version.pre # "" /\ ~AllDigits(LastIdentifier(latest_version.pre))) =>
               error = NotNumeric

\* C8: with no component on the command line, Prerelease is bumped when the
\* current version has a prerelease and Patch otherwise; a component given is
\* the one bumped. Tags {0.0.1} at HEAD give 0.0.2, tags {0.0.1-beta.1} at HEAD
\* give 0.0.1-beta.2.
C8_DefaultComponent ==
    /\ (Selected /\ pc # "choose") =>
          field_to_bump = IF opts.component.some THEN opts.component.val
                          ELSE IF latest_version.pre # "" THEN "Prerelease"
                          ELSE "Patch"
    /\ (PastBump /\ ~opts.component.some /\ TagsAre(start_tags, [n \in {"0.0.1"} |-> head])) =>
          Bumped /\ VersionToString(new_version) = "0.0.2"
    /\ (PastBump /\ ~opts.component.some
          /\ TagsAre(start_tags, [n \in {"0.0.1-beta.1"} |-> head])) =>
          Bumped /\ VersionToString(new_version) = "0.0.1-beta.2"

C8_Witness ==
    /\ pc = "done"
    /\ ~opts.component.some
    /\ ~opts.global
    /\ TagsAre(start_tags, [n \in {"0.0.1-beta.1"} |-> head])
    /\ field_to_bump = "Prerelease"
    /\ VersionToString(new_version) = "0.0.1-beta.2"

\* C9: the run fails with "no version tags found" exactly when no tag of the
\* scope parses as a version: in the Global scope no tag of the repository, in
\* the Local scope no tag at HEAD's commit, whatever tags other commits carry.
C9_NoCandidateIffScopeEmpty ==
    PastSelect => (~Selected <=> ScopeVersions = {})

\* C10: a run leaves the tags as they were unless selection and increment
\* succeeded and dry_run is false, and then it creates exactly one tag, named by
\* the new version and pointing to HEAD; a run that fails, and every dry run,
\* creates no tag and pushes nothing.
C10_OneTagOnlyOnSuccess ==
    pc # "idle" =>
        /\ tags # start_tags =>
             /\ Bumped
             /\ ~opts.dry_run
             /\ VersionToString(new_version) \notin DOMAIN start_tags
             /\ DOMAIN tags = DOMAIN start_tags \cup {VersionToString(new_version)}
             /\ \A n \in DOMAIN start_tags : tags[n] = start_tags[n]
             /\ tags[VersionToString(new_version)].commit = head
        /\ (Bumped /\ ~opts.dry_run /\ pc \in {"done", "failed"}) => tags # start_tags
        /\ (~Bumped \/ opts.dry_run) => (tags = start_tags /\ remote_tags = {})

-----------------------------------------------------------------------------
(* How the run behaves where it departs from the above                     *)

\* In either scope the version selected is the greatest over all version tags
\* of the repository: the Local filter keeps every version, because no
\* reference has a bare version string as its name.
SelectsMaxOfAllTags ==
    PastSelect =>
        LET versions == AllVersions(start_tags)
        IN  IF versions = {} THEN ~Selected
            ELSE Selected /\ IsSemverMax(latest_version, versions)

\* A bump changes the one field it names and nothing else.
BumpChangesOneField ==
    (Bumped /\ field_to_bump \in {"Major", "Minor", "Patch"}) =>
        \E f \in {"major", "minor", "patch"} :
            new_version = [latest_version EXCEPT ![f] = Succ(latest_version[f])]

\* A Prerelease bump gives a version exactly when the prerelease has two or
\* more identifiers and the last is a number that can be incremented in a u64.
PrereleaseBumpOutcome ==
    (PastBump /\ field_to_bump = "Prerelease") =>
        LET last == LastIdentifier(latest_version.pre)
        IN  /\ latest_version.pre = "" => error = NotNumeric
            /\ (Len(last) > 0 /\ ~AllDigits(last)) => error = NotNumeric
            /\ (Len(last) > 0 /\ AllDigits(last)
                  /\ Len(Identifiers(latest_version.pre)) = 1) =>
                   error \in {RebuildFailed, AddOverflow}
            /\ (AllDigits(last) /\ Len(Identifiers(latest_version.pre)) >= 2
                  /\ StrDigits(last) # U64Max) =>
                   /\ Bumped
                   /\ new_version =
                        [latest_version EXCEPT !.pre = WithLastIncremented(latest_version.pre)]

\* Creating the tag fails only when the increment wrapped around.
TagExistsOnlyAfterWrap ==
    (pc = "failed" /\ error = "tag already exists") =>
        /\ field_to_bump = "Prerelease"
        /\ StrDigits(LastIdentifier(latest_version.pre)) = U64Max

====
